---- MODULE Spec2Model ----
(***************************************************************************)
(* Model of perResidueCluster.py: backbone extraction, stratification by   *)
(* residue count, score-ranked greedy ("cookie-cutter") clustering with    *)
(* the Kabsch RMSD as distance, and the result tables handed to the        *)
(* serializer.                                                             *)
(*                                                                         *)
(* Strings that the code splits on '_' are kept as their token sequences.  *)
(* A numpy array is kept as its shape (a sequence of dimensions); the      *)
(* RMSD of two equal-shape coordinate sets is a measured value drawn from  *)
(* RmsdValues the first time a pair is aligned and remembered in rmsd, so  *)
(* that the same two structures always measure the same.  RMSD values and  *)
(* cutoffs are in units of half an angstrom.                               *)
(***************************************************************************)
EXTENDS Integers, Sequences, FiniteSets, TLC

VARIABLES
    pc,                  \* position of the run
    error,               \* exception that ended the run, or "none"
    scores,              \* parse_score_file's result: base name -> score
    disk,                \* content of each CIF file
    cif_files,           \* files the loading loop still has to visit
    coords_by_length,    \* ordered dict: n_residues -> ordered dict name -> coords
    structure_info,      \* ordered dict: name -> <<n_residues, score>>
    lengths_todo,        \* rest of sorted(coords_by_length.keys())
    coords_dict,         \* cluster_structures argument
    structure_order,     \* cluster_structures argument
    rmsd_cutoff,         \* cluster_structures argument
    unclustered,         \* cluster_structures local
    clusters,            \* cluster_structures local, ordered dict rep -> members
    all_clusters,        \* main's result table
    all_representatives, \* main's list of representatives
    output,              \* what main wrote: <<clusters.json, representatives>>
    rmsd,                \* RMSD measured so far, by unordered pair of names
    run,                 \* 0 inside main; 1, 2: direct calls of cluster_structures
    first_call,          \* the first direct call: its cutoff and what it returned
    next_cutoff,         \* cutoff of the second direct call
    kP, kQ, kRet         \* a direct call of kabsch_algorithm and its outcome

vars == <<pc, error, scores, disk, cif_files, coords_by_length, structure_info,
          lengths_todo, coords_dict, structure_order, rmsd_cutoff, unclustered,
          clusters, all_clusters, all_representatives, output, rmsd, run,
          first_call, next_cutoff, kP, kQ, kRet>>

----------------------------------------------------------------------------
(* Bounds of the model *)

MaxScore == 3       \* the numbers among the scores are 1..MaxScore
MaxGroup == 3       \* size of the group of a direct cluster_structures call
MaxPoints == 8      \* point counts of a direct kabsch_algorithm call

(* rmsd_cutoff=1.5 of main, in half angstroms *)
DefaultCutoff == 3

(* The cutoffs of the direct calls, and the values an RMSD is measured at: *)
(* below every cutoff, between the two, and at the larger one.             *)
CutoffValues == {DefaultCutoff - 1, DefaultCutoff}
RmsdValues == {0, DefaultCutoff - 1, DefaultCutoff}

(* float('nan'), which float(parts[2]) returns for the text 'nan'; no      *)
(* number of the model is negative.                                        *)
nan == -1

(* what float(parts[2]) can be *)
ScoreValues == (1..MaxScore) \cup {nan}

(* a < b and a <= b of two floats or two ints: False when either is nan *)
Lt(a, b) == a # nan /\ b # nan /\ a < b

Le(a, b) == a # nan /\ b # nan /\ a <= b

----------------------------------------------------------------------------
(* Ordered dictionaries (Python dict): a sequence of [key, val] entries in  *)
(* insertion order.                                                        *)

Range(s) == {s[i] : i \in 1..Len(s)}

DictKeys(d) == [i \in 1..Len(d) |-> d[i].key]

DictHas(d, k) == \E i \in 1..Len(d) : d[i].key = k

DictGet(d, k) == d[CHOOSE i \in 1..Len(d) : d[i].key = k].val

DictPut(d, k, v) ==
    IF DictHas(d, k)
    THEN [i \in 1..Len(d) |-> IF d[i].key = k THEN [key |-> k, val |-> v] ELSE d[i]]
    ELSE Append(d, [key |-> k, val |-> v])

(* list(S) of a set S: its elements once each, in some order *)
Orderings(S) ==
    {p \in [1..Cardinality(S) -> S] : \A i, j \in 1..Cardinality(S) : p[i] = p[j] => i = j}

----------------------------------------------------------------------------
(* Names *)

StructureName(w, k) == <<"alpha", ToString(w), ToString(k), "chainA.cif">>

(* '_'.join(structure_name.split('_')[2:]) *)
BaseName(name) == SubSeq(name, 3, Len(name))

(* The directory: three files, each with a base name of its own. *)
FileNames == {StructureName(1, 1), StructureName(1, 2), StructureName(1, 3)}

ScoreKeys == {BaseName(f) : f \in FileNames}

----------------------------------------------------------------------------
(* kabsch_algorithm, on array shapes *)

(* what an operation on shapes yields when numpy raises instead *)
ValueError == <<-1>>
LinAlgError == <<-2>>

IsShape(s) == s # ValueError /\ s # LinAlgError

(* ndarray.T *)
Transpose(s) == [i \in 1..Len(s) |-> s[Len(s) + 1 - i]]

(* a @ b for arrays of one or two dimensions *)
MatMul(a, b) ==
    IF Len(a) = 1 /\ Len(b) = 1 THEN (IF a[1] = b[1] THEN <<>> ELSE ValueError)
    ELSE IF Len(a) = 2 /\ Len(b) = 1 THEN (IF a[2] = b[1] THEN <<a[1]>> ELSE ValueError)
    ELSE IF Len(a) = 1 /\ Len(b) = 2 THEN (IF a[1] = b[1] THEN <<b[2]>> ELSE ValueError)
    ELSE IF Len(a) = 2 /\ Len(b) = 2 THEN (IF a[2] = b[1] THEN <<a[1], b[2]>> ELSE ValueError)
    ELSE ValueError

(* np.linalg.svd wants at least two dimensions *)
Svd(h) == IF Len(h) < 2 THEN LinAlgError ELSE h

(* The outcome of kabsch_algorithm(P, Q) for shapes P and Q, where measured *)
(* is the RMSD of the two point sets when it is a number:                   *)
(*   "raised"  an exception left the call, exc names it                     *)
(*   "nan"     the call returned rmsd = nan (0/0 at line 54)                *)
(*   "value"   the call returned rmsd = measured                            *)
kabsch_algorithm(P, Q, measured) ==
    LET P_centered == P          \* P - centroid_P broadcasts to P's shape
        Q_centered == Q
        H == MatMul(Transpose(P_centered), Q_centered)
        USVt == IF IsShape(H) THEN Svd(H) ELSE H
    IN  IF ~IsShape(H) THEN [kind |-> "raised", exc |-> "ValueError", rmsd |-> 0]
        ELSE IF ~IsShape(USVt) THEN [kind |-> "raised", exc |-> "LinAlgError", rmsd |-> 0]
        ELSE IF P[1] = 0 THEN [kind |-> "nan", exc |-> "none", rmsd |-> 0]
        ELSE [kind |-> "value", exc |-> "none", rmsd |-> measured]

(* Variants of WithinCutoff: the comparison made inclusive, and the       *)
(* comparison turned around.                                               *)
WithinCutoffInclusive(res, cutoff) == res.kind = "value" /\ res.rmsd <= cutoff

BeyondCutoff(res, cutoff) == res.kind = "value" /\ res.rmsd > cutoff

(* rmsd < rmsd_cutoff; a comparison with nan is False *)
WithinCutoff(res, cutoff) == res.kind = "value" /\ res.rmsd < cutoff

----------------------------------------------------------------------------
(* extract_backbone_coords *)

atom_names == <<"N", "CA", "C", "O">>

FullResidue == {"N", "CA", "C", "O", "CB"}
NoOxygen == {"N", "CA", "C", "CB"}
Ligand == {"C1", "O1"}

(* What a CIF file can hold: unreadable, or the residues of its model,     *)
(* each residue the set of its atom names.                                 *)
StructurePool ==
    { [readable |-> FALSE, residues |-> <<>>],
      [readable |-> TRUE, residues |-> <<Ligand>>],
      [readable |-> TRUE, residues |-> <<NoOxygen>>],
      [readable |-> TRUE, residues |-> <<FullResidue>>],
      [readable |-> TRUE, residues |-> <<FullResidue, NoOxygen>>] }

RECURSIVE BackboneAtoms(_)
BackboneAtoms(residues) ==
    IF residues = <<>> THEN 0
    ELSE Cardinality({i \in 1..Len(atom_names) : atom_names[i] \in Head(residues)})
         + BackboneAtoms(Tail(residues))

(* np.array(backbone_atoms): shape (0,) for an empty list, (n, 3) otherwise *)
ArrayShape(n) == IF n = 0 THEN <<0>> ELSE <<n, 3>>

extract_backbone_coords(structure) ==
    LET coords == ArrayShape(BackboneAtoms(structure.residues))
    IN  [coords |-> coords, n_residues |-> coords[1] \div 4]

----------------------------------------------------------------------------
(* sorted(names, key=...) *)
(*                                                                         *)
(* list.sort on fewer than 64 elements: the run the list begins with is    *)
(* found (and reversed when it descends strictly), then every later        *)
(* element is put into the sorted front by binary insertion.  Each         *)
(* decision is one key < key comparison, so keys that hold nan, for which  *)
(* every comparison is False, are placed as the code places them.          *)

Reverse(s) == [i \in 1..Len(s) |-> s[Len(s) + 1 - i]]

(* does the run of names start by descending strictly *)
Descending(names, key) == Lt(key[names[2]], key[names[1]])

(* length of the run names begins with; names has two elements or more *)
RunLength(names, key) ==
    LET Continues(i) == Lt(key[names[i]], key[names[i - 1]]) = Descending(names, key)
    IN  CHOOSE r \in 2..Len(names) :
            /\ \A i \in 3..r : Continues(i)
            /\ r = Len(names) \/ ~Continues(r + 1)

(* where binary insertion puts x into sorted: the number of elements that  *)
(* stay in front of it, searched between l and r                           *)
RECURSIVE InsertionPoint(_, _, _, _, _)
InsertionPoint(sorted, x, key, l, r) ==
    IF l >= r THEN l
    ELSE LET p == l + ((r - l) \div 2)
         IN  IF Lt(key[x], key[sorted[p + 1]])
             THEN InsertionPoint(sorted, x, key, l, p)
             ELSE InsertionPoint(sorted, x, key, p + 1, r)

RECURSIVE BinarySort(_, _, _)
BinarySort(sorted, rest, key) ==
    IF rest = <<>> THEN sorted
    ELSE LET x == Head(rest)
             l == InsertionPoint(sorted, x, key, 0, Len(sorted))
         IN  BinarySort(SubSeq(sorted, 1, l) \o <<x>> \o SubSeq(sorted, l + 1, Len(sorted)),
                        Tail(rest), key)

SortedByKey(names, key) ==
    IF Len(names) < 2 THEN names
    ELSE LET r == RunLength(names, key)
             front == SubSeq(names, 1, r)
         IN  BinarySort(IF Descending(names, key) THEN Reverse(front) ELSE front,
                        SubSeq(names, r + 1, Len(names)), key)

----------------------------------------------------------------------------
(* cluster_structures *)

None == <<>>

(* for struct in structure_order: if struct in unclustered: center = struct; break *)
FirstUnclustered(order, unc) ==
    IF \E i \in 1..Len(order) : order[i] \in unc
    THEN order[CHOOSE i \in 1..Len(order) :
                 /\ order[i] \in unc
                 /\ \A j \in 1..(i - 1) : order[j] \notin unc]
    ELSE None

(* Variants of DiscardMembers: only the seed is discarded, and only the    *)
(* absorbed names are.                                                     *)
DiscardSeedOnly(unc, members) == unc \ {members[1]}

DiscardAbsorbedOnly(unc, members) == unc \ Range(Tail(members))

(* for member in members: unclustered.discard(member) *)
DiscardMembers(unc, members) == unc \ Range(members)

(* The values kabsch_algorithm measures for the names in others against    *)
(* center: the remembered value of a pair aligned before, any value of a   *)
(* pair aligned for the first time.                                        *)
Measurements(others, center) ==
    {m \in [others -> RmsdValues] :
        \A s \in others : {s, center} \in DOMAIN rmsd => m[s] = rmsd[{s, center}]}

Aligned(s, center, m) ==
    kabsch_algorithm(DictGet(coords_dict, s), DictGet(coords_dict, center), m[s])

Remember(others, center, m) ==
    LET new == {{s, center} : s \in {x \in others : Aligned(x, center, m).kind = "value"}}
    IN  [p \in DOMAIN rmsd \cup new |->
            IF p \in DOMAIN rmsd THEN rmsd[p]
            ELSE m[CHOOSE s \in others : p = {s, center}]]

(* members = [center], then every struct of list(unclustered) with rmsd < rmsd_cutoff *)
Members(center, iter, m) ==
    LET IsWithin(s) == WithinCutoff(Aligned(s, center, m), rmsd_cutoff)
    IN  <<center>> \o SelectSeq(iter, IsWithin)

(* One pass of the while loop that ends at line 164. *)
ClusterIteration ==
    /\ pc = "while"
    /\ unclustered # {}
    /\ LET center == FirstUnclustered(structure_order, unclustered)
           others == unclustered \ {center}
       IN  /\ center # None
           /\ \E iter \in Orderings(others) : \E m \in Measurements(others, center) :
                /\ \A s \in others : Aligned(s, center, m).kind # "raised"
                /\ unclustered' = DiscardMembers(unclustered, Members(center, iter, m))
                /\ clusters' = DictPut(clusters, center, Members(center, iter, m))
                /\ rmsd' = Remember(others, center, m)
    /\ UNCHANGED <<pc, error, scores, disk, cif_files, coords_by_length, structure_info,
                   lengths_todo, coords_dict, structure_order, rmsd_cutoff, all_clusters,
                   all_representatives, output, run, first_call, next_cutoff,
                   kP, kQ, kRet>>

(* kabsch_algorithm raises inside the for loop: nothing catches it, in     *)
(* cluster_structures or in main.  Any struct whose alignment raises can   *)
(* be the first one list(unclustered) reaches.                             *)
KabschRaises ==
    /\ pc = "while"
    /\ unclustered # {}
    /\ LET center == FirstUnclustered(structure_order, unclustered)
           others == unclustered \ {center}
       IN  /\ center # None
           /\ \E s \in others : \E m \in Measurements(others, center) :
                /\ Aligned(s, center, m).kind = "raised"
                /\ error' = Aligned(s, center, m).exc
    /\ pc' = "crashed"
    /\ UNCHANGED <<scores, disk, cif_files, coords_by_length, structure_info,
                   lengths_todo, coords_dict, structure_order, rmsd_cutoff, unclustered,
                   clusters, all_clusters, all_representatives, output, rmsd, run,
                   first_call, next_cutoff, kP, kQ, kRet>>

(* while unclustered: ... if center is None: break ... return clusters *)
ReturnClusters ==
    /\ pc = "while"
    /\ unclustered = {} \/ FirstUnclustered(structure_order, unclustered) = None
    /\ pc' = "returned"
    /\ UNCHANGED <<error, scores, disk, cif_files, coords_by_length, structure_info,
                   lengths_todo, coords_dict, structure_order, rmsd_cutoff, unclustered,
                   clusters, all_clusters, all_representatives, output, rmsd, run,
                   first_call, next_cutoff, kP, kQ, kRet>>

----------------------------------------------------------------------------
(* main *)

NoRmsd == [p \in {} |-> 0]
NoFirstCall == [cutoff |-> 0, clusters |-> <<>>]
NoCall == [kind |-> "none", exc |-> "none", rmsd |-> 0]

(* Variant of InScores: the filter of line 200 left out. *)
InScoresAlways(base_name) == TRUE

(* if base_name not in scores: continue *)
InScores(base_name) == base_name \in DOMAIN scores

(* The variables of the direct calls, which main leaves alone. *)
DirectIdle == UNCHANGED <<run, first_call, next_cutoff, kP, kQ, kRet>>

(* Lines 193-201: a file whose base name has no score is passed over. *)
SkipUnscored ==
    /\ pc = "load"
    /\ \E cif_file \in cif_files :
         /\ ~InScores(BaseName(cif_file))
         /\ cif_files' = cif_files \ {cif_file}
    /\ UNCHANGED <<pc, error, scores, disk, coords_by_length, structure_info,
                   lengths_todo, coords_dict, structure_order, rmsd_cutoff, unclustered,
                   clusters, all_clusters, all_representatives, output, rmsd>>
    /\ DirectIdle

(* Lines 203-213: the extraction raises, main prints a warning and goes on. *)
ExtractFails ==
    /\ pc = "load"
    /\ \E cif_file \in cif_files :
         /\ InScores(BaseName(cif_file))
         /\ ~disk[cif_file].readable
         /\ cif_files' = cif_files \ {cif_file}
    /\ UNCHANGED <<pc, error, scores, disk, coords_by_length, structure_info,
                   lengths_todo, coords_dict, structure_order, rmsd_cutoff, unclustered,
                   clusters, all_clusters, all_representatives, output, rmsd>>
    /\ DirectIdle

(* Lines 203-210: the coordinates go into the group of their n_residues. *)
LoadStructure ==
    /\ pc = "load"
    /\ \E cif_file \in cif_files :
         LET ex == extract_backbone_coords(disk[cif_file])
             n_residues == ex.n_residues
             group == IF DictHas(coords_by_length, n_residues)
                      THEN DictGet(coords_by_length, n_residues)
                      ELSE <<>>
         IN  /\ InScores(BaseName(cif_file))
             /\ disk[cif_file].readable
             /\ coords_by_length' =
                    DictPut(coords_by_length, n_residues, DictPut(group, cif_file, ex.coords))
             /\ structure_info' =       \* a KeyError at line 210 is caught at line 212
                    IF BaseName(cif_file) \in DOMAIN scores
                    THEN DictPut(structure_info, cif_file,
                                 <<n_residues, scores[BaseName(cif_file)]>>)
                    ELSE structure_info
             /\ cif_files' = cif_files \ {cif_file}
    /\ UNCHANGED <<pc, error, scores, disk, lengths_todo, coords_dict, structure_order,
                   rmsd_cutoff, unclustered, clusters, all_clusters, all_representatives,
                   output, rmsd>>
    /\ DirectIdle

(* Lines 215-222: the loading loop is over, the loop over the sorted       *)
(* lengths begins.                                                         *)
StartClustering ==
    /\ pc = "load"
    /\ cif_files = {}
    /\ pc' = "groups"
    /\ lengths_todo' =
          SortedByKey(DictKeys(coords_by_length),
                      [n \in Range(DictKeys(coords_by_length)) |-> n])
    /\ all_clusters' = <<>>
    /\ all_representatives' = <<>>
    /\ UNCHANGED <<error, scores, disk, cif_files, coords_by_length, structure_info,
                   coords_dict, structure_order, rmsd_cutoff, unclustered, clusters,
                   output, rmsd>>
    /\ DirectIdle

(* Lines 222-242 and 129-130: the group of the next length is sorted by    *)
(* score and cluster_structures is entered; scores[base_name] raises       *)
(* KeyError for a name without a score.                                    *)
CallClusterStructures ==
    /\ pc = "groups"
    /\ lengths_todo # <<>>
    /\ LET length == Head(lengths_todo)
           group == DictGet(coords_by_length, length)
           structures_this_length == DictKeys(group)
       IN  IF \A name \in Range(structures_this_length) : BaseName(name) \in DOMAIN scores
           THEN /\ pc' = "while"
                /\ coords_dict' = group
                /\ structure_order' =
                      SortedByKey(structures_this_length,
                                  [name \in Range(structures_this_length) |->
                                      scores[BaseName(name)]])
                /\ rmsd_cutoff' = DefaultCutoff
                /\ unclustered' = Range(structure_order')
                /\ clusters' = <<>>
                /\ error' = error
           ELSE /\ pc' = "crashed"
                /\ error' = "KeyError"
                /\ UNCHANGED <<coords_dict, structure_order, rmsd_cutoff, unclustered,
                               clusters>>
    /\ UNCHANGED <<scores, disk, cif_files, coords_by_length, structure_info,
                   lengths_todo, all_clusters, all_representatives, output, rmsd>>
    /\ DirectIdle

(* for rep, members in clusters.items(): all_clusters[rep] = {...} *)
RECURSIVE StoreClusters(_, _, _)
StoreClusters(all, cl, length) ==
    IF cl = <<>> THEN all
    ELSE StoreClusters(
             DictPut(all, Head(cl).key,
                     [members |-> Head(cl).val,
                      n_residues |-> length,
                      n_members |-> Len(Head(cl).val),
                      representative_score |-> scores[BaseName(Head(cl).key)]]),
             Tail(cl), length)

(* Lines 245-253. *)
StoreResults ==
    /\ pc = "returned"
    /\ run = 0
    /\ pc' = "groups"
    /\ all_clusters' = StoreClusters(all_clusters, clusters, Head(lengths_todo))
    /\ all_representatives' = all_representatives \o DictKeys(clusters)
    /\ lengths_todo' = Tail(lengths_todo)
    /\ UNCHANGED <<error, scores, disk, cif_files, coords_by_length, structure_info,
                   coords_dict, structure_order, rmsd_cutoff, unclustered, clusters,
                   output, rmsd>>
    /\ DirectIdle

(* Lines 255-282: clusters.json and the representatives sorted by score. *)
SaveResults ==
    /\ pc = "groups"
    /\ lengths_todo = <<>>
    /\ pc' = "done"
    /\ output' =
          <<all_clusters,
            SortedByKey(all_representatives,
                        [r \in Range(all_representatives) |->
                            DictGet(all_clusters, r).representative_score])>>
    /\ UNCHANGED <<error, scores, disk, cif_files, coords_by_length, structure_info,
                   lengths_todo, coords_dict, structure_order, rmsd_cutoff, unclustered,
                   clusters, all_clusters, all_representatives, rmsd>>
    /\ DirectIdle

(* main after parse_score_file and glob: any score table, any files. *)
Init ==
    /\ pc = "load"
    /\ error = "none"
    /\ \E keys \in SUBSET ScoreKeys : scores \in [keys -> ScoreValues]
    /\ disk \in [FileNames -> StructurePool]
    /\ cif_files = FileNames
    /\ coords_by_length = <<>>
    /\ structure_info = <<>>
    /\ lengths_todo = <<>>
    /\ coords_dict = <<>>
    /\ structure_order = <<>>
    /\ rmsd_cutoff = DefaultCutoff
    /\ unclustered = {}
    /\ clusters = <<>>
    /\ all_clusters = <<>>
    /\ all_representatives = <<>>
    /\ output = <<>>
    /\ rmsd = NoRmsd
    /\ run = 0
    /\ first_call = NoFirstCall
    /\ next_cutoff = DefaultCutoff
    /\ kP = <<0>>
    /\ kQ = <<0>>
    /\ kRet = NoCall

Next ==
    \/ SkipUnscored
    \/ ExtractFails
    \/ LoadStructure
    \/ StartClustering
    \/ CallClusterStructures
    \/ ClusterIteration
    \/ KabschRaises
    \/ ReturnClusters
    \/ StoreResults
    \/ SaveResults

Spec == Init /\ [][Next]_vars

----------------------------------------------------------------------------
(* cluster_structures called directly on a group: any number of names up  *)
(* to a size, each with coordinates as extract_backbone_coords returns     *)
(* them for one complete residue or for a structure without backbone       *)
(* atoms, in a structure_order that is sorted by score ascending, as the   *)
(* docstring asks of the caller (ties are allowed; nan is in no ascending  *)
(* order of two names or more), and any cutoff.                            *)

GroupNames(k) == [i \in 1..k |-> StructureName(1, i)]

OneResidue == extract_backbone_coords([readable |-> TRUE, residues |-> <<FullResidue>>]).coords

NoBackbone == extract_backbone_coords([readable |-> TRUE, residues |-> <<Ligand>>]).coords

InitDirect(sizes) ==
    /\ pc = "while"
    /\ error = "none"
    /\ run = 1
    /\ \E k \in sizes :
         /\ scores \in [{BaseName(n) : n \in Range(GroupNames(k))} -> ScoreValues]
         /\ \A i, j \in 1..k :
               i < j => Le(scores[BaseName(GroupNames(k)[i])], scores[BaseName(GroupNames(k)[j])])
         /\ \E coords \in [1..k -> {OneResidue, NoBackbone}] :
               coords_dict = [i \in 1..k |-> [key |-> GroupNames(k)[i], val |-> coords[i]]]
         /\ structure_order = GroupNames(k)
    /\ rmsd_cutoff \in CutoffValues
    /\ unclustered = Range(structure_order)
    /\ clusters = <<>>
    /\ rmsd = NoRmsd
    /\ first_call = NoFirstCall
    /\ disk = <<>>
    /\ cif_files = {}
    /\ coords_by_length = <<>>
    /\ structure_info = <<>>
    /\ lengths_todo = <<>>
    /\ all_clusters = <<>>
    /\ all_representatives = <<>>
    /\ output = <<>>
    /\ kP = <<0>>
    /\ kQ = <<0>>
    /\ kRet = NoCall

InitCluster ==
    /\ InitDirect(1..MaxGroup)
    /\ next_cutoff = rmsd_cutoff

NextCluster ==
    \/ ClusterIteration
    \/ KabschRaises
    \/ ReturnClusters

SpecCluster == InitCluster /\ [][NextCluster]_vars

----------------------------------------------------------------------------
(* cluster_structures called twice on the same group: the same names,      *)
(* coordinates and processing order, with cutoffs                          *)
(* rmsd_cutoff <= next_cutoff.                                             *)

TwiceSizes == {3, 4}

InitTwice ==
    /\ InitDirect(TwiceSizes)
    /\ next_cutoff \in {c \in CutoffValues : rmsd_cutoff <= c}

(* The second call: lines 129-130 again, on the same arguments but the cutoff. *)
CallAgain ==
    /\ pc = "returned"
    /\ run = 1
    /\ run' = 2
    /\ first_call' = [cutoff |-> rmsd_cutoff, clusters |-> clusters]
    /\ rmsd_cutoff' = next_cutoff
    /\ unclustered' = Range(structure_order)
    /\ clusters' = <<>>
    /\ pc' = "while"
    /\ UNCHANGED <<error, scores, disk, cif_files, coords_by_length, structure_info,
                   lengths_todo, coords_dict, structure_order, all_clusters,
                   all_representatives, output, rmsd, next_cutoff, kP, kQ, kRet>>

NextTwice ==
    \/ ClusterIteration
    \/ KabschRaises
    \/ ReturnClusters
    \/ CallAgain

SpecTwice == InitTwice /\ [][NextTwice]_vars

----------------------------------------------------------------------------
(* kabsch_algorithm called directly on two arrays: n x 3 arrays with       *)
(* n >= 0 points, and the one-dimensional empty array that np.array([])    *)
(* is.                                                                     *)

ArrayPool == {<<0>>} \cup {<<n, 3>> : n \in 0..MaxPoints}

InitKabsch ==
    /\ pc = "kabsch"
    /\ error = "none"
    /\ kP \in ArrayPool
    /\ kQ \in ArrayPool
    /\ kRet = NoCall
    /\ scores = <<>>
    /\ disk = <<>>
    /\ cif_files = {}
    /\ coords_by_length = <<>>
    /\ structure_info = <<>>
    /\ lengths_todo = <<>>
    /\ coords_dict = <<>>
    /\ structure_order = <<>>
    /\ rmsd_cutoff = DefaultCutoff
    /\ unclustered = {}
    /\ clusters = <<>>
    /\ all_clusters = <<>>
    /\ all_representatives = <<>>
    /\ output = <<>>
    /\ rmsd = NoRmsd
    /\ run = 0
    /\ first_call = NoFirstCall
    /\ next_cutoff = DefaultCutoff

CallKabsch ==
    /\ pc = "kabsch"
    /\ \E measured \in RmsdValues : kRet' = kabsch_algorithm(kP, kQ, measured)
    /\ pc' = "kabsch_returned"
    /\ UNCHANGED <<error, scores, disk, cif_files, coords_by_length, structure_info,
                   lengths_todo, coords_dict, structure_order, rmsd_cutoff, unclustered,
                   clusters, all_clusters, all_representatives, output, rmsd, run,
                   first_call, next_cutoff, kP, kQ>>

NextKabsch == CallKabsch

SpecKabsch == InitKabsch /\ [][NextKabsch]_vars

----------------------------------------------------------------------------
(* What the properties below speak of *)

RECURSIVE Flatten(_)
Flatten(cl) == IF cl = <<>> THEN <<>> ELSE Head(cl).val \o Flatten(Tail(cl))

Score(name) == scores[BaseName(name)]

Position(name) == CHOOSE i \in 1..Len(structure_order) : structure_order[i] = name

(* the names in the clusters formed before the i-th *)
ClusteredBefore(cl, i) == UNION {Range(cl[j].val) : j \in 1..(i - 1)}

Absorbed(cl, i) == Range(cl[i].val) \ {cl[i].key}

Sizes(cl) == {Len(cl[i].val) : i \in 1..Len(cl)}

InCall == pc \in {"while", "returned"}

----------------------------------------------------------------------------
(* C1  Partition completeness: when cluster_structures returns, the member *)
(* lists together hold every name of the group exactly once and no other   *)
(* name.                                                                   *)
PartitionComplete ==
    pc = "returned" =>
        /\ Len(Flatten(clusters)) = Len(structure_order)
        /\ Range(Flatten(clusters)) = Range(structure_order)

(* a group of three or more names returned in two clusters *)
PartitionWitness ==
    /\ pc = "returned"
    /\ Len(structure_order) >= 3
    /\ Len(clusters) = 2

----------------------------------------------------------------------------
(* C7  Seed selection: every representative is the first name of the       *)
(* processing order that was unclustered when its cluster was formed (all  *)
(* names before it in the order are in earlier clusters, and it is not);   *)
(* it is in its own member list; no member scores strictly lower than its  *)
(* representative; no representative scores strictly lower than one        *)
(* created before it.                                                      *)
SeedSelection ==
    InCall =>
        /\ \A i \in 1..Len(clusters) :
              /\ clusters[i].key \notin ClusteredBefore(clusters, i)
              /\ \A j \in 1..(Position(clusters[i].key) - 1) :
                    structure_order[j] \in ClusteredBefore(clusters, i)
              /\ clusters[i].key \in Range(clusters[i].val)
              /\ \A m \in Range(clusters[i].val) : ~Lt(Score(m), Score(clusters[i].key))
        /\ \A i, j \in 1..Len(clusters) :
              i < j => ~Lt(Score(clusters[j].key), Score(clusters[i].key))

----------------------------------------------------------------------------
(* C8  Assignment rule: an absorbed member measured strictly less than the *)
(* cutoff against its representative and not less than the cutoff against *)
(* every earlier representative; a representative measured not less than   *)
(* the cutoff against every earlier representative; and every pair that    *)
(* was ever measured holds a representative, so no RMSD between two        *)
(* non-representatives exists to influence the result.                     *)
AssignmentRule ==
    InCall =>
        /\ \A i \in 1..Len(clusters) :
              /\ \A m \in Absorbed(clusters, i) :
                    /\ {m, clusters[i].key} \in DOMAIN rmsd
                    /\ rmsd[{m, clusters[i].key}] < rmsd_cutoff
              /\ \A m \in Range(clusters[i].val) : \A j \in 1..(i - 1) :
                    /\ {m, clusters[j].key} \in DOMAIN rmsd
                    /\ rmsd[{m, clusters[j].key}] >= rmsd_cutoff
        /\ \A pair \in DOMAIN rmsd :
              \E i \in 1..Len(clusters) : clusters[i].key \in pair

(* a cluster with an absorbed member, and a name left out of it whose RMSD *)
(* to the seed is the cutoff exactly                                       *)
AssignmentWitness ==
    /\ pc = "returned"
    /\ Absorbed(clusters, 1) # {}
    /\ \E n \in Range(structure_order) \ Range(clusters[1].val) :
          rmsd[{n, clusters[1].key}] = rmsd_cutoff

----------------------------------------------------------------------------
(* Two calls on the same group *)

SecondCallDone == pc = "returned" /\ run = 2

LowerCutoffFirst == first_call.cutoff < rmsd_cutoff

Largest(sizes) == CHOOSE n \in sizes : \A k \in sizes : k <= n

NoTies ==
    \A a, b \in Range(structure_order) :
        a # b => Lt(Score(a), Score(b)) \/ Lt(Score(b), Score(a))

(* C2 as stated  Threshold monotonicity: with the lower cutoff no cluster  *)
(* has more members than the largest cluster of the higher cutoff, a       *)
(* representative of both calls has no more members than it has with the   *)
(* higher cutoff, and there are at least as many clusters as with the      *)
(* higher cutoff.                                                          *)
ThresholdMonotone ==
    (SecondCallDone /\ LowerCutoffFirst) =>
        /\ Largest(Sizes(first_call.clusters)) <= Largest(Sizes(clusters))
        /\ \A i \in 1..Len(first_call.clusters) :
              DictHas(clusters, first_call.clusters[i].key) =>
                  Len(first_call.clusters[i].val)
                      <= Len(DictGet(clusters, first_call.clusters[i].key))
        /\ Len(first_call.clusters) >= Len(clusters)

(* C2 amended  The cluster formed first has the same representative under  *)
(* both cutoffs, and its members with the lower cutoff are among its       *)
(* members with the higher one.                                            *)
FirstClusterMonotone ==
    (SecondCallDone /\ LowerCutoffFirst) =>
        /\ first_call.clusters[1].key = clusters[1].key
        /\ Range(first_call.clusters[1].val) \subseteq Range(clusters[1].val)

(* the first cluster is strictly smaller with the lower cutoff, while a    *)
(* later cluster is larger than any cluster of the higher cutoff           *)
FirstClusterWitness ==
    /\ SecondCallDone
    /\ LowerCutoffFirst
    /\ Len(first_call.clusters[1].val) < Len(clusters[1].val)
    /\ Largest(Sizes(first_call.clusters)) > Largest(Sizes(clusters))

(* C3  Determinism: two calls on the same group with the same cutoff and   *)
(* scores without ties return the same representatives with the same       *)
(* ordered member lists.                                                   *)
Deterministic ==
    (SecondCallDone /\ first_call.cutoff = rmsd_cutoff /\ NoTies) =>
        clusters = first_call.clusters

----------------------------------------------------------------------------
(* Stratification and scores in main *)

(* the names of the group at position g of coords_by_length *)
GroupOf(g) == Range(DictKeys(coords_by_length[g].val))

(* C4  Stratification: the groups of coords_by_length are disjoint, none   *)
(* is empty, and all coordinate sets of a group have the same point count. *)
Stratified ==
    /\ \A g, h \in 1..Len(coords_by_length) : g # h => GroupOf(g) \cap GroupOf(h) = {}
    /\ \A g \in 1..Len(coords_by_length) :
          /\ GroupOf(g) # {}
          /\ \A a, b \in GroupOf(g) :
                DictGet(coords_by_length[g].val, a)[1] = DictGet(coords_by_length[g].val, b)[1]

(* the names in the member lists of a table of clusters *)
Clustered(table) == UNION {Range(table[i].val.members) : i \in 1..Len(table)}

(* C10  Missing scores: a file whose base name is not in the score table   *)
(* is in no length group, no processing order and no cluster, and the run  *)
(* never ends in the KeyError of a score lookup.                           *)
MissingScoreExcluded ==
    /\ error # "KeyError"
    /\ \A f \in FileNames :
          BaseName(f) \notin DOMAIN scores =>
              /\ \A g \in 1..Len(coords_by_length) : f \notin GroupOf(g)
              /\ f \notin Range(structure_order)
              /\ f \notin Range(Flatten(clusters))
              /\ f \notin Clustered(all_clusters)

(* the run ended with clusters written although a file had no score *)
MissingScoreWitness ==
    /\ pc = "done"
    /\ output[1] # <<>>
    /\ \E f \in FileNames : BaseName(f) \notin DOMAIN scores

----------------------------------------------------------------------------
(* Termination of cluster_structures *)

PointCounts == {coords_dict[i].val[1] : i \in 1..Len(coords_dict)}

EqualLength == Cardinality(PointCounts) = 1

EqualNonEmpty == EqualLength /\ 0 \notin PointCounts

KabschRaised == pc = "crashed" /\ error \in {"ValueError", "LinAlgError"}

Bounded ==
    /\ Len(clusters) + Cardinality(unclustered) <= Len(structure_order)
    /\ \A i \in 1..Len(clusters) : Len(clusters[i].val) >= 1
    /\ pc = "returned" => unclustered = {}

(* C9 as stated  Termination: on a group whose coordinate sets have equal  *)
(* length the loop is never left by an exception, and it ends with an      *)
(* empty working set, at most group-size clusters, none of them empty.     *)
TerminatesOnEqualLength ==
    /\ KabschRaised => ~EqualLength
    /\ (InCall /\ EqualLength) => Bounded

(* C9 amended  Termination, for a group whose coordinate sets have equal   *)
(* length and at least one point: the loop is never left by an exception,  *)
(* it can always take its next step, every iteration removes the seed and  *)
(* makes the working set strictly smaller, and it ends with an empty       *)
(* working set, at most group-size clusters, none of them empty.           *)
TerminatesOnEqualNonEmpty ==
    /\ [](KabschRaised => ~EqualNonEmpty)
    /\ []((InCall /\ EqualNonEmpty) => Bounded)
    /\ []((pc = "while" /\ EqualNonEmpty) => ENABLED (ClusterIteration \/ ReturnClusters))
    /\ [][(pc = "while" /\ pc' = "while") =>
              /\ unclustered' \subseteq unclustered
              /\ unclustered' # unclustered
              /\ FirstUnclustered(structure_order, unclustered) \notin unclustered'
              /\ Len(clusters') = Len(clusters) + 1]_vars

(* a group of three equal non-empty coordinate sets clustered to the end   *)
(* in more than one iteration                                              *)
TerminationWitness ==
    /\ pc = "returned"
    /\ EqualNonEmpty
    /\ Len(structure_order) = 3
    /\ Len(clusters) >= 2
    /\ unclustered = {}

----------------------------------------------------------------------------
(* kabsch_algorithm called directly *)

(* C5  Rejection: a call with different point counts, or with no points,   *)
(* ends in an exception and returns no RMSD.                               *)
RejectsMismatchAndEmpty ==
    (pc = "kabsch_returned" /\ (kP[1] # kQ[1] \/ kP[1] = 0)) => kRet.kind = "raised"

====
